---- MODULE Spec2Model ----
(***************************************************************************)
(* Model of the ODBC backend of the SMS daemon (smsd/services/odbc.c).     *)
(*                                                                         *)
(* The adapter is single-threaded and synchronous: every operation of the  *)
(* GSM_SMSDdbobj table is one atomic action.  The ODBC driver manager, the *)
(* C allocator and the database contents are the environment; the status   *)
(* each library call returns is an input of the action, drawn with \E.     *)
(***************************************************************************)
EXTENDS Integers, Sequences, FiniteSets, TLC

(***************************************************************************)
(* Bounds of the model.                                                    *)
(***************************************************************************)
\* SMSD_ODBC_MAX_RETURN_STRINGS of sql.h, scaled down.
SMSD_ODBC_MAX_RETURN_STRINGS == 1
\* rows a result set can deliver before SQLFetch has to report SQL_NO_DATA
NumRows == 3
\* blocks the allocator can hand out before malloc has to fail
MaxBlocks == 2
\* length of the strings handed to QuoteString
MaxLen == 4

(***************************************************************************)
(* Characters and strings of QuoteString (a string is a sequence of        *)
(* characters).                                                            *)
(***************************************************************************)
DQ == "\""
BS == "\\"
Chars == {DQ, BS, "a"}

RECURSIVE StringsUpTo(_)
StringsUpTo(n) ==
    IF n = 0 THEN {<<>>}
    ELSE LET S == StringsUpTo(n - 1)
         IN  S \cup {Append(s, c) : s \in {t \in S : Len(t) = n - 1}, c \in Chars}

(***************************************************************************)
(* ODBC return codes.                                                      *)
(***************************************************************************)
SQL_SUCCEEDED(rc) == rc \in {"SQL_SUCCESS", "SQL_SUCCESS_WITH_INFO"}

Call(fn, handle, rc) == [fn |-> fn, handle |-> handle, rc |-> rc]

(***************************************************************************)
(* SMSD_Log and SMSDODBC_LogError.  A log entry has a severity, a message  *)
(* and, for LogError, the type of the handle whose diagnostic records      *)
(* follow the header line (SQLGetDiagRec is asked until it has no more).   *)
(***************************************************************************)
SMSD_Log(sev, msg) == <<[sev |-> sev, msg |-> msg, diag |-> "none"]>>

LogError(handle_type, message) ==
    <<[sev |-> "DEBUG_ERROR", msg |-> message, diag |-> handle_type]>>

(***************************************************************************)
(* The database: the cell of row r (1-based) and column c (0-based) of the *)
(* result set, as its character rendering.  SqlNull is the SQL NULL.       *)
(***************************************************************************)
SqlNull == "<null>"
Vals == <<"1", "-1", SqlNull, "0", "yes">>
Cell(r, c) == Vals[((2 * (r - 1) + c) % Len(Vals)) + 1]

IsNumeric(v) == v \in {"1", "-1", "0"}
NumOf(v) == CASE v = "1" -> 1 [] v = "-1" -> -1 [] OTHER -> 0

\* columns of a result set: 0 .. NumCols - 1
NumCols == SMSD_ODBC_MAX_RETURN_STRINGS + 1
\* field indexes the callers pass
Fields == 0 .. (SMSD_ODBC_MAX_RETURN_STRINGS + 2)
\* slots of Config->conn.odbc.retstr the code can address
Slots == 0 .. SMSD_ODBC_MAX_RETURN_STRINGS

VARIABLES
    phase,      \* caller: "idle", "connected" (Connect returned SQL_OK), "failed"
    envH,       \* Config->conn.odbc.env: "null", "live" or "freed"
    dbcH,       \* Config->conn.odbc.dbc: "null", "live" or "freed"
    envDbcs,    \* connection handles allocated under the environment envH
    connected,  \* dbcH is connected
    res,        \* caller: "none", or "pending" (Query called, FreeResult due)
    stmtH,      \* res->odbc: "null", "live" or "freed"
    stmts,      \* statement handles allocated in the driver manager
    resOK,      \* the pending Query returned SQL_OK
    pos,        \* cursor: the row it is on (0: before the first row)
    eof,        \* SQLFetch has reported SQL_NO_DATA
    retstr,     \* Config->conn.odbc.retstr: "NULL", "wild" or the block's bytes
    leaked,     \* blocks allocated, not freed, and referenced by no slot
    last,       \* the operation that ran last and what it returned
    api,        \* the library calls of the last operation, with their status
    log         \* the log entries of the last operation

vars == <<phase, envH, dbcH, envDbcs, connected, res, stmtH, stmts, resOK,
          pos, eof, retstr, leaked, last, api, log>>

connVars == <<envH, dbcH, envDbcs, connected>>
resVars  == <<stmtH, stmts, resOK, pos, eof>>

Last(op, field, ret, str) ==
    [op |-> op, field |-> field, ret |-> ret, str |-> str,
     arg |-> <<>>, out |-> <<>>, year |-> 0, month |-> 0, fb |-> FALSE]

\* a slot holds a block of the allocator
IsBlock(p) == p \notin {"NULL", "wild"}
Live == Cardinality({i \in Slots : IsBlock(retstr[i])}) + leaked

(***************************************************************************)
(* State before the first Connect.  retstr[SMSD_ODBC_MAX_RETURN_STRINGS]   *)
(* is never initialised by Connect: it starts null or as a wild pointer.   *)
(***************************************************************************)
Init ==
    /\ phase = "idle"
    /\ envH = "null"
    /\ dbcH = "null"
    /\ envDbcs = 0
    /\ connected = FALSE
    /\ res = "none"
    /\ stmtH = "null"
    /\ stmts = 0
    /\ resOK = FALSE
    /\ pos = 0
    /\ eof = FALSE
    /\ \E p \in {"NULL", "wild"} :
          retstr = [i \in Slots |->
                      IF i = SMSD_ODBC_MAX_RETURN_STRINGS THEN p ELSE "NULL"]
    /\ leaked = 0
    /\ last = Last("none", 0, 0, "")
    /\ api = <<>>
    /\ log = <<>>

(***************************************************************************)
(* SMSDODBC_Connect.  failAt is the step whose call fails (0: none).       *)
(***************************************************************************)
ConnectCalls ==
    << <<"SQLAllocHandle(ENV)", "SQL_HANDLE_ENV", "SQLAllocHandle(ENV) failed">>,
       <<"SQLSetEnvAttr",       "SQL_HANDLE_ENV", "SQLSetEnvAttr failed">>,
       <<"SQLAllocHandle(DBC)", "SQL_HANDLE_ENV", "SQLAllocHandle(DBC) failed">>,
       <<"SQLConnect",          "SQL_HANDLE_DBC", "SQLConnect failed">> >>

\* the type of the handle whose diagnostics Connect logs when step k fails
ConnectLogHandle(k) == ConnectCalls[k][2]

ConnectApi(failAt, rcOk) ==
    [k \in 1 .. (IF failAt = 0 THEN 4 ELSE failAt) |->
        Call(ConnectCalls[k][1],
             IF k = 4 THEN "SQL_HANDLE_DBC" ELSE "SQL_HANDLE_ENV",
             IF k = failAt THEN "SQL_ERROR" ELSE rcOk)]

ConnectRet(failAt) == IF failAt = 0 THEN "SQL_OK" ELSE "SQL_FAIL"

Connect ==
    /\ phase = "idle"
    /\ \E failAt \in 0 .. 4, rcOk \in {"SQL_SUCCESS", "SQL_SUCCESS_WITH_INFO"} :
        LET envOk == failAt # 1
            dbcOk == failAt \notin {1, 2, 3}
        IN
        /\ retstr' = [i \in Slots |->
                        IF i < SMSD_ODBC_MAX_RETURN_STRINGS THEN "NULL" ELSE retstr[i]]
        /\ envH' = IF envOk THEN "live" ELSE "null"
        /\ dbcH' = IF dbcOk THEN "live"
                   ELSE IF failAt = 3 THEN "null" ELSE dbcH
        /\ envDbcs' = IF dbcOk THEN 1 ELSE IF envOk THEN 0 ELSE envDbcs
        /\ connected' = (failAt = 0)
        /\ phase' = IF failAt = 0 THEN "connected" ELSE "failed"
        /\ last' = Last("Connect", 0, 0, ConnectRet(failAt))
        /\ api' = ConnectApi(failAt, rcOk)
        /\ log' = IF failAt = 0 THEN <<>>
                  ELSE LogError(ConnectLogHandle(failAt), ConnectCalls[failAt][3])
        /\ UNCHANGED <<res, resVars, leaked>>

(***************************************************************************)
(* SMSDODBC_Free: SQLDisconnect(dbc), SQLFreeHandle(SQL_HANDLE_ENV, env),  *)
(* then free() of the slots 0 .. SMSD_ODBC_MAX_RETURN_STRINGS - 1.  The    *)
(* driver manager refuses to free an environment that still has allocated  *)
(* connection handles (SQLSTATE HY010).  The dispatcher calls Free once no *)
(* result is pending.                                                      *)
(***************************************************************************)
FreeSlots == 0 .. (SMSD_ODBC_MAX_RETURN_STRINGS - 1)

EnvFreed == envH = "live" /\ envDbcs = 0

Free ==
    /\ phase \in {"connected", "failed"}
    /\ res = "none"
    /\ phase' = "idle"
    /\ connected' = FALSE
    /\ envH' = IF EnvFreed THEN "freed" ELSE envH
    /\ retstr' = [i \in Slots |-> IF i \in FreeSlots THEN "NULL" ELSE retstr[i]]
    /\ last' = Last("Free", 0, 0, phase)
    /\ api' = << Call("SQLDisconnect", "SQL_HANDLE_DBC",
                      IF dbcH = "live" /\ connected THEN "SQL_SUCCESS" ELSE "SQL_ERROR"),
                 Call("SQLFreeHandle(ENV)", "SQL_HANDLE_ENV",
                      IF EnvFreed THEN "SQL_SUCCESS" ELSE "SQL_ERROR") >>
    /\ log' = <<>>
    /\ UNCHANGED <<dbcH, envDbcs, res, resVars, leaked>>

(***************************************************************************)
(* SMSDODBC_Query.  failAt: 0 none, 1 SQLAllocHandle(STMT), 2 SQLExecDirect*)
(***************************************************************************)
\* variant: the handle is released when SQLExecDirect fails, as SeqID does
QueryStmtFreedOnFailure(rc) == IF SQL_SUCCEEDED(rc) THEN "live" ELSE "freed"

\* res->odbc after SQLExecDirect returned rc: the handle is left allocated
QueryStmtAfterExec(rc) == "live"

QueryLog(failAt) ==
    IF failAt = 2 THEN LogError("SQL_HANDLE_STMT", "SQLExecDirect failed") ELSE <<>>

Query ==
    /\ phase = "connected"
    /\ res = "none"
    /\ \E failAt \in 0 .. 2 :
        LET rc2 == IF failAt = 2 THEN "SQL_ERROR" ELSE "SQL_SUCCESS" IN
        /\ res' = "pending"
        /\ stmtH' = IF failAt = 1 THEN "null" ELSE QueryStmtAfterExec(rc2)
        /\ stmts' = IF failAt # 1 /\ QueryStmtAfterExec(rc2) = "live"
                    THEN stmts + 1 ELSE stmts
        /\ resOK' = (failAt = 0)
        /\ pos' = 0
        /\ eof' = FALSE
        /\ last' = Last("Query", 0, 0, IF failAt = 0 THEN "SQL_OK" ELSE "SQL_FAIL")
        /\ api' = IF failAt = 1
                  THEN <<Call("SQLAllocHandle(STMT)", "SQL_HANDLE_DBC", "SQL_ERROR")>>
                  ELSE <<Call("SQLAllocHandle(STMT)", "SQL_HANDLE_DBC", "SQL_SUCCESS"),
                         Call("SQLExecDirect", "SQL_HANDLE_STMT", rc2)>>
        /\ log' = QueryLog(failAt)
        /\ UNCHANGED <<phase, connVars, retstr, leaked>>

(***************************************************************************)
(* SMSDODBC_FreeResult: SQLFreeHandle(SQL_HANDLE_STMT, res->odbc).         *)
(* last.str is the state of the handle it was called on, last.ret whether  *)
(* the Query it ends had returned SQL_OK.                                  *)
(***************************************************************************)
FreeResultStmt(h) == IF h = "live" THEN "freed" ELSE h

FreeResult ==
    /\ res = "pending"
    /\ res' = "none"
    /\ stmtH' = FreeResultStmt(stmtH)
    /\ stmts' = IF stmtH = "live" /\ stmtH' = "freed" THEN stmts - 1 ELSE stmts
    /\ resOK' = FALSE
    /\ pos' = 0
    /\ eof' = FALSE
    /\ last' = Last("FreeResult", 0, IF resOK THEN 1 ELSE 0, stmtH)
    /\ api' = <<Call("SQLFreeHandle(STMT)", "SQL_HANDLE_STMT",
                     IF stmtH = "live" THEN "SQL_SUCCESS" ELSE "SQL_INVALID_HANDLE")>>
    /\ log' = <<>>
    /\ UNCHANGED <<phase, connVars, retstr, leaked>>

(***************************************************************************)
(* SMSDODBC_NextRow: SQLFetch(res->odbc).                                  *)
(***************************************************************************)
FetchOutcomes ==
    (IF ~eof /\ pos < NumRows THEN {"SQL_SUCCESS", "SQL_SUCCESS_WITH_INFO"} ELSE {})
    \cup {"SQL_NO_DATA", "SQL_ERROR"}

\* variant: SQL_NO_DATA is logged like any other failure
NextRowLogAlways(rc) ==
    IF ~SQL_SUCCEEDED(rc) THEN LogError("SQL_HANDLE_STMT", "SQLFetch failed") ELSE <<>>

NextRowLog(rc) ==
    IF ~SQL_SUCCEEDED(rc) /\ rc # "SQL_NO_DATA"
    THEN LogError("SQL_HANDLE_STMT", "SQLFetch failed")
    ELSE <<>>

NextRowRet(rc) == IF ~SQL_SUCCEEDED(rc) THEN 0 ELSE 1

NextRow ==
    /\ res = "pending"
    /\ resOK
    /\ \E rc \in FetchOutcomes :
        /\ pos' = IF SQL_SUCCEEDED(rc) THEN pos + 1
                  ELSE IF rc = "SQL_NO_DATA" THEN 0 ELSE pos
        /\ eof' = (eof \/ rc = "SQL_NO_DATA")
        /\ last' = Last("NextRow", 0, NextRowRet(rc), "")
        /\ api' = <<Call("SQLFetch", "SQL_HANDLE_STMT", rc)>>
        /\ log' = NextRowLog(rc)
        /\ UNCHANGED <<phase, connVars, res, stmtH, stmts, resOK, retstr, leaked>>

(***************************************************************************)
(* The row the cursor is on, and what SQLGetData can return for a column.  *)
(* Column numbers of SQLGetData are 1-based: column n is Cell(pos, n - 1). *)
(***************************************************************************)
OnRow == 1 <= pos /\ ~eof

HasColumn(n) == OnRow /\ 1 <= n /\ n <= NumCols

\* SQL_C_SLONG: only a numeric cell converts; a NULL cell needs an indicator
LongOutcomes(n) ==
    IF HasColumn(n) /\ IsNumeric(Cell(pos, n - 1))
    THEN {"SQL_SUCCESS", "SQL_ERROR"} ELSE {"SQL_ERROR"}

\* SQL_C_CHAR with a buffer of length 0: the length, or SQL_NULL_DATA
ProbeOutcomes(n) ==
    IF HasColumn(n)
    THEN {IF Cell(pos, n - 1) = SqlNull THEN "SQL_SUCCESS" ELSE "SQL_SUCCESS_WITH_INFO",
          "SQL_ERROR"}
    ELSE {"SQL_ERROR"}

DataOutcomes == {"SQL_SUCCESS", "SQL_ERROR"}

(***************************************************************************)
(* SMSDODBC_GetNumber.                                                     *)
(***************************************************************************)
GetNumberColumn(field) == field + 1

GetNumberR(field, rc) ==
    [ret |-> IF ~SQL_SUCCEEDED(rc) THEN -1
             ELSE NumOf(Cell(pos, GetNumberColumn(field) - 1)),
     api |-> <<Call("SQLGetData(long)", "SQL_HANDLE_STMT", rc)>>,
     log |-> IF ~SQL_SUCCEEDED(rc)
             THEN LogError("SQL_HANDLE_STMT", "SQLGetData(long) failed")
             ELSE <<>>]

GetNumber ==
    /\ res = "pending"
    /\ resOK
    /\ \E field \in Fields :
       \E rc \in LongOutcomes(GetNumberColumn(field)) :
        LET r == GetNumberR(field, rc) IN
        /\ last' = Last("GetNumber", field, r.ret, "")
        /\ api' = r.api
        /\ log' = r.log
        /\ UNCHANGED <<phase, connVars, res, resVars, retstr, leaked>>

(***************************************************************************)
(* SMSDODBC_GetDate.  The SQL_TIMESTAMP_STRUCT is copied field by field    *)
(* into a struct tm and handed to mktime.  Time is counted in months since *)
(* January 1970; mktime reads tm_year as years since 1900 and tm_mon as    *)
(* months since January.  Day and time of day are copied unchanged.        *)
(***************************************************************************)
Timestamps == {[year |-> 2011, month |-> 1], [year |-> 2011, month |-> 12]}

mktime(tm) == (tm.tm_year + 1900 - 1970) * 12 + tm.tm_mon

GetDateTm(sqltime) == [tm_year |-> sqltime.year, tm_mon |-> sqltime.month]

GetDateRet(rc, sqltime) ==
    IF ~SQL_SUCCEEDED(rc) THEN -1 ELSE mktime(GetDateTm(sqltime))

GetDate ==
    /\ res = "pending"
    /\ resOK
    /\ \E field \in Fields, sqltime \in Timestamps :
       \E rc \in (IF HasColumn(field + 1) THEN {"SQL_SUCCESS", "SQL_ERROR"}
                  ELSE {"SQL_ERROR"}) :
        /\ last' = [Last("GetDate", field, GetDateRet(rc, sqltime), "")
                       EXCEPT !.year = sqltime.year, !.month = sqltime.month]
        /\ api' = <<Call("SQLGetData(timestamp)", "SQL_HANDLE_STMT", rc)>>
        /\ log' = IF ~SQL_SUCCEEDED(rc)
                  THEN LogError("SQL_HANDLE_STMT", "SQLGetData(timestamp) failed")
                  ELSE <<>>
        /\ UNCHANGED <<phase, connVars, res, resVars, retstr, leaked>>

(***************************************************************************)
(* SMSDODBC_GetString.  Inputs: rc1 the status of the length probe, mem    *)
(* whether malloc/realloc delivers, rc2 the status of the data fetch, junk *)
(* whether a failed data fetch scribbled over the buffer.  A fresh block   *)
(* holds indeterminate bytes "?".  The result is the returned pointer      *)
(* ("NULL", or the bytes it points to), the slots, the leaked blocks, the  *)
(* library calls and the log.                                              *)
(***************************************************************************)
\* variant: the limit is compared one too high
GetStringTooManyLate(field) == field > SMSD_ODBC_MAX_RETURN_STRINGS + 1

GetStringTooMany(field) == field > SMSD_ODBC_MAX_RETURN_STRINGS

\* variant: the column number is one too high
GetStringColumnShifted(field) == field + 2

GetStringColumn(field) == field + 1

\* retstr[field] after the allocation step
GetStringAlloc(old, mem) ==
    IF old = "NULL"
    THEN (IF mem = "ok" /\ Live < MaxBlocks THEN "?" ELSE "NULL")
    ELSE (IF mem = "ok" THEN (IF old = "wild" THEN "?" ELSE old) ELSE "NULL")

\* blocks that realloc's failure leaves without a reference
GetStringLost(old, new) == IF IsBlock(old) /\ new = "NULL" THEN 1 ELSE 0

\* retstr[field]; what lies past the array is whatever memory holds
RetstrAt(field) == IF field \in Slots THEN retstr[field] ELSE "wild"

GetStringR(field, rc1, mem, rc2, junk) ==
    LET col   == GetStringColumn(field)
        probe == Call("SQLGetData(string,NULL)", "SQL_HANDLE_STMT", rc1)
        fetch == Call("SQLGetData(string)", "SQL_HANDLE_STMT", rc2)
        old   == RetstrAt(field)
        new   == GetStringAlloc(old, mem)
        Set(v) == IF field \in Slots THEN [retstr EXCEPT ![field] = v] ELSE retstr
    IN
    IF GetStringTooMany(field) THEN
        [str |-> "NULL", retstr |-> retstr, leaked |-> leaked, api |-> <<>>,
         log |-> SMSD_Log("DEBUG_ERROR", "Field returning NULL, too many fields!")]
    ELSE IF ~SQL_SUCCEEDED(rc1) THEN
        [str |-> "NULL", retstr |-> retstr, leaked |-> leaked, api |-> <<probe>>,
         log |-> LogError("SQL_HANDLE_STMT", "SQLGetData(string,NULL) failed")]
    ELSE IF Cell(pos, col - 1) = SqlNull THEN
        [str |-> "NULL", retstr |-> retstr, leaked |-> leaked, api |-> <<probe>>,
         log |-> SMSD_Log("DEBUG_INFO", "Field returning NULL")]
    ELSE IF new = "NULL" THEN
        [str |-> "NULL", retstr |-> Set("NULL"),
         leaked |-> leaked + GetStringLost(old, new), api |-> <<probe>>,
         log |-> SMSD_Log("DEBUG_ERROR", "Field returning NULL, failed to allocate")]
    ELSE IF ~SQL_SUCCEEDED(rc2) THEN
        [str |-> "NULL", retstr |-> Set(IF junk THEN "?" ELSE new),
         leaked |-> leaked, api |-> <<probe, fetch>>,
         log |-> LogError("SQL_HANDLE_STMT", "SQLGetData(string) failed")]
    ELSE
        [str |-> Cell(pos, col - 1),
         retstr |-> Set(Cell(pos, col - 1)),
         leaked |-> leaked, api |-> <<probe, fetch>>,
         log |-> SMSD_Log("DEBUG_INFO", "Field returning string")]

\* everything the library and the allocator can make of GetString(field)
GetStringResults(field) ==
    {GetStringR(field, rc1, mem, rc2, junk) :
        rc1 \in ProbeOutcomes(GetStringColumn(field)), mem \in {"ok", "fail"},
        rc2 \in DataOutcomes, junk \in BOOLEAN}

GetString ==
    /\ res = "pending"
    /\ resOK
    /\ \E field \in Fields :
       \E r \in GetStringResults(field) :
        /\ last' = Last("GetString", field, 0, r.str)
        /\ retstr' = r.retstr
        /\ leaked' = r.leaked
        /\ api' = r.api
        /\ log' = r.log
        /\ UNCHANGED <<phase, connVars, res, resVars>>

(***************************************************************************)
(* SMSDODBC_GetBool.  GSM_StringToBool is the daemon's boolean parser.     *)
(***************************************************************************)
GSM_StringToBool(value) == value \in {"1", "yes", "true", "t", "y"}

\* the numeric accessor's result makes GetBool take the string fallback
GetBoolFallback(intval) == intval = -1

GetBoolR(field, n, s) ==
    IF GetBoolFallback(n.ret)
    THEN [ret |-> IF GSM_StringToBool(s.str) THEN 1 ELSE 0, str |-> s.str, fb |-> TRUE,
          retstr |-> s.retstr, leaked |-> s.leaked,
          api |-> n.api \o s.api, log |-> n.log \o s.log]
    ELSE [ret |-> IF n.ret # 0 THEN 1 ELSE 0, str |-> "", fb |-> FALSE,
          retstr |-> retstr, leaked |-> leaked, api |-> n.api, log |-> n.log]

\* SQLGetData on a column that was already read may also refuse
GetBoolResults(field) ==
    {GetBoolR(field, GetNumberR(field, rcN), s) :
        rcN \in LongOutcomes(GetNumberColumn(field)),
        s \in GetStringResults(field)
             \cup {GetStringR(field, "SQL_ERROR", "ok", "SQL_ERROR", FALSE)}}

GetBool ==
    /\ res = "pending"
    /\ resOK
    /\ \E field \in Fields :
       \E r \in GetBoolResults(field) :
        /\ last' = [Last("GetBool", field, r.ret, r.str) EXCEPT !.fb = r.fb]
        /\ retstr' = r.retstr
        /\ leaked' = r.leaked
        /\ api' = r.api
        /\ log' = r.log
        /\ UNCHANGED <<phase, connVars, res, resVars>>

(***************************************************************************)
(* SMSDODBC_QuoteString.                                                   *)
(***************************************************************************)
\* variant: only the double quote is escaped
QuoteNeedsEscapeQuoteOnly(c) == c = DQ

QuoteNeedsEscape(c) == c = DQ \/ c = BS

RECURSIVE QuoteLoop(_, _, _)
QuoteLoop(string, i, encoded_text) ==
    IF i > Len(string) THEN encoded_text
    ELSE QuoteLoop(string, i + 1,
                   Append(IF QuoteNeedsEscape(string[i])
                          THEN Append(encoded_text, BS) ELSE encoded_text,
                          string[i]))

QuoteString(string) == Append(QuoteLoop(string, 1, <<DQ>>), DQ)

QuoteStringOp ==
    /\ \E string \in StringsUpTo(MaxLen) :
        last' = [Last("QuoteString", 0, 0, "")
                    EXCEPT !.arg = string, !.out = QuoteString(string)]
    /\ api' = <<>>
    /\ log' = <<>>
    /\ UNCHANGED <<phase, connVars, res, resVars, retstr, leaked>>

(***************************************************************************)
(* SMSDODBC_SeqID.  failAt: 0 none, 1 SQLAllocHandle(STMT), 2 SQLExecDirect*)
(* of "SELECT @@IDENTITY", 3 SQLFetch, 4 SQLGetData.  The local statement  *)
(* handle is freed on every path that allocated it.                        *)
(***************************************************************************)
SeqIDCalls == <<"SQLAllocHandle(STMT)", "SQLExecDirect", "SQLFetch", "SQLGetData(long)">>

SeqIDApi(failAt) ==
    LET n == IF failAt = 0 THEN 4 ELSE failAt
        made == [k \in 1 .. n |->
                   Call(SeqIDCalls[k],
                        IF k = 1 THEN "SQL_HANDLE_DBC" ELSE "SQL_HANDLE_STMT",
                        IF k = failAt THEN "SQL_ERROR" ELSE "SQL_SUCCESS")]
    IN IF failAt = 1 THEN made
       ELSE Append(made, Call("SQLFreeHandle(STMT)", "SQL_HANDLE_STMT", "SQL_SUCCESS"))

SeqIDRet(failAt, value) == IF failAt # 0 THEN 0 ELSE value

SeqIDLog(failAt) == <<>>

SeqID ==
    /\ phase = "connected"
    /\ \E failAt \in 0 .. 4, value \in 1 .. 2 :
        /\ last' = Last("SeqID", 0, SeqIDRet(failAt, value), "")
        /\ api' = SeqIDApi(failAt)
        /\ log' = SeqIDLog(failAt)
        /\ UNCHANGED <<phase, connVars, res, resVars, retstr, leaked>>

(***************************************************************************)
(* SMSDODBC_AffectedRows: SQLRowCount(res->odbc); a failure is logged with *)
(* the diagnostics of the connection handle.                               *)
(***************************************************************************)
AffectedRowsLog(rc) ==
    IF ~SQL_SUCCEEDED(rc) THEN LogError("SQL_HANDLE_DBC", "SQLRowCount failed") ELSE <<>>

AffectedRowsRet(rc, count) == IF ~SQL_SUCCEEDED(rc) THEN 0 ELSE count

AffectedRows ==
    /\ res = "pending"
    /\ resOK
    /\ \E rc \in {"SQL_SUCCESS", "SQL_ERROR"}, count \in 0 .. 2 :
        /\ last' = Last("AffectedRows", 0, AffectedRowsRet(rc, count), "")
        /\ api' = <<Call("SQLRowCount", "SQL_HANDLE_STMT", rc)>>
        /\ log' = AffectedRowsLog(rc)
        /\ UNCHANGED <<phase, connVars, res, resVars, retstr, leaked>>

Next ==
    \/ Connect
    \/ Free
    \/ Query
    \/ FreeResult
    \/ NextRow
    \/ GetNumber
    \/ GetDate
    \/ GetString
    \/ GetBool
    \/ SeqID
    \/ AffectedRows

Spec == Init /\ [][Next]_vars

\* QuoteString touches no state of the connection: it is checked on its own
NextQuote == QuoteStringOp

SpecQuote == Init /\ [][NextQuote]_vars

(***************************************************************************)
(* Properties.                                                             *)
(***************************************************************************)
\* a library call of the last operation returned a non-success status
Failed == \E k \in DOMAIN api : ~SQL_SUCCEEDED(api[k].rc)

\* the last operation logged, at error severity, the diagnostics of handle h
LoggedDiag(h) ==
    \E j \in DOMAIN log : log[j].sev = "DEBUG_ERROR" /\ log[j].diag = h

TooManyFieldsLog == SMSD_Log("DEBUG_ERROR", "Field returning NULL, too many fields!")

\* C1: GetString with a field index above SMSD_ODBC_MAX_RETURN_STRINGS returns
\* NULL and logs the "too many fields" error, without any SQLGetData call and
\* without changing a slot of retstr or the heap.
C1_TooManyFieldsRejected ==
    [][(last'.op = "GetString" /\ last'.field > SMSD_ODBC_MAX_RETURN_STRINGS)
         => /\ last'.str = "NULL"
            /\ log' = TooManyFieldsLog
            /\ api' = <<>>
            /\ retstr' = retstr
            /\ leaked' = leaked]_vars

\* a rejected GetString while a slot holds a buffer
C1_Witness ==
    /\ last.op = "GetString"
    /\ last.field > SMSD_ODBC_MAX_RETURN_STRINGS
    /\ \E i \in Slots : IsBlock(retstr[i])

\* C2: after Free every buffer GetString allocated is released and no slot
\* GetString can write still holds one.
C2_FreeReleasesEveryBuffer ==
    last.op = "Free" => /\ leaked = 0
                        /\ \A i \in Slots : ~IsBlock(retstr[i])

\* C3: after a successful Connect and one Free neither the environment handle
\* nor the connection handle is still allocated.
C3_FreeDestroysHandles ==
    (last.op = "Free" /\ last.str = "connected") => (envH # "live" /\ dbcH # "live")

LoggingOps ==
    {"Connect", "Query", "NextRow", "GetNumber", "GetDate", "GetString", "SeqID",
     "AffectedRows"}

\* C4: every non-success status of a library call, except SQL_NO_DATA of
\* NextRow, is followed by an error-severity log of the diagnostics of the
\* handle the call was made on.
C4_EveryFailureLogged ==
    last.op \in LoggingOps =>
        \A k \in DOMAIN api :
            (/\ ~SQL_SUCCEEDED(api[k].rc)
             /\ ~(last.op = "NextRow" /\ api[k].rc = "SQL_NO_DATA"))
            => LoggedDiag(api[k].handle)

\* C5: NextRow returns true exactly when SQLFetch succeeded; SQL_NO_DATA gives
\* false and no log entry; any other failure gives false and an error log.
C5_NextRowOutcome ==
    last.op = "NextRow" =>
        LET rc == api[1].rc IN
        /\ (last.ret = 1) <=> SQL_SUCCEEDED(rc)
        /\ last.ret \in {0, 1}
        /\ rc = "SQL_NO_DATA" => log = <<>>
        /\ (~SQL_SUCCEEDED(rc) /\ rc # "SQL_NO_DATA")
              => \E j \in DOMAIN log : log[j].sev = "DEBUG_ERROR"

\* the result set is exhausted after a row was read into a buffer
C5_Witness ==
    /\ last.op = "NextRow"
    /\ api[1].rc = "SQL_NO_DATA"
    /\ last.ret = 0
    /\ \E i \in Slots : IsBlock(retstr[i])

\* C6: when the numeric accessor delivers the column's value, GetBool is true
\* iff that value is nonzero, and the string fallback is not used.
C6_GetBoolFollowsNumber ==
    (last.op = "GetBool" /\ SQL_SUCCEEDED(api[1].rc)) =>
        /\ (last.ret = 1) <=> (NumOf(Cell(pos, last.field)) # 0)
        /\ ~last.fb

\* the body of a quoted string is well formed: a backslash only in front of a
\* double quote or a backslash, and neither of the two without one
RECURSIVE WellEscaped(_)
WellEscaped(s) ==
    IF s = <<>> THEN TRUE
    ELSE IF s[1] = BS
         THEN Len(s) >= 2 /\ s[2] \in {DQ, BS} /\ WellEscaped(SubSeq(s, 3, Len(s)))
         ELSE s[1] # DQ /\ WellEscaped(Tail(s))

\* removes the backslash in front of each escaped character
RECURSIVE Unescape(_)
Unescape(s) ==
    IF s = <<>> THEN <<>>
    ELSE IF s[1] = BS /\ Len(s) >= 2
         THEN <<s[2]>> \o Unescape(SubSeq(s, 3, Len(s)))
         ELSE <<s[1]>> \o Unescape(Tail(s))

\* C7: the output of QuoteString starts and ends with a double quote; between
\* them exactly the double quotes and backslashes of the input carry one added
\* backslash, and removing those backslashes gives the input back.
C7_QuoteRoundTrip ==
    last.op = "QuoteString" =>
        LET out  == last.out
            body == SubSeq(out, 2, Len(out) - 1)
        IN
        /\ Len(out) >= 2
        /\ out[1] = DQ
        /\ out[Len(out)] = DQ
        /\ WellEscaped(body)
        /\ Unescape(body) = last.arg
        /\ Len(body) = Len(last.arg)
                       + Cardinality({i \in DOMAIN last.arg : last.arg[i] \in {DQ, BS}})

\* an input with several characters, among them both special ones
C7_Witness ==
    /\ last.op = "QuoteString"
    /\ Len(last.arg) >= 3
    /\ \E i, j \in DOMAIN last.arg : last.arg[i] = DQ /\ last.arg[j] = BS

\* the time of a timestamp, in months since January 1970
TimeOf(year, month) == (year - 1970) * 12 + (month - 1)

\* C8: a failed library call makes the operation return its sentinel; with no
\* failure it returns the success value or the value that was fetched.
C8_SentinelOrValue ==
    /\ last.op \in {"Connect", "Query"}
          => last.str = (IF Failed THEN "SQL_FAIL" ELSE "SQL_OK")
    /\ last.op = "NextRow" => last.ret = (IF Failed THEN 0 ELSE 1)
    /\ last.op = "GetNumber"
          => last.ret = (IF Failed THEN -1 ELSE NumOf(Cell(pos, last.field)))
    /\ last.op = "GetDate"
          => last.ret = (IF Failed THEN -1 ELSE TimeOf(last.year, last.month))
    /\ last.op = "GetString"
          => /\ Failed => last.str = "NULL"
             /\ last.str # "NULL" => last.str = Cell(pos, last.field)
    /\ last.op = "SeqID" => (Failed <=> last.ret = 0)
    /\ (last.op = "AffectedRows" /\ Failed) => last.ret = 0

\* C9 as claimed: every Query, failed or not, leaves an allocated statement
\* handle, so FreeResult always releases an allocated handle.
C9_QueryAlwaysLeavesHandle ==
    /\ last.op = "Query" => stmtH = "live"
    /\ last.op = "FreeResult" => (last.str = "live" /\ stmts = 0)

\* C9 amended: Query leaves an allocated statement handle exactly when its
\* SQLAllocHandle succeeded (also when SQLExecDirect then failed); otherwise
\* res->odbc is the null handle.  FreeResult is called on that allocated handle
\* or on the null handle, never on a released one, and leaves no statement
\* handle allocated.
C9_FreeResultReleasesQueryHandle ==
    /\ last.op = "Query"
          => /\ (stmtH = "live") <=> SQL_SUCCEEDED(api[1].rc)
             /\ stmtH = "live" => stmts = 1
             /\ stmtH # "live" => (stmtH = "null" /\ stmts = 0)
    /\ last.op = "FreeResult"
          => /\ last.str \in {"live", "null"}
             /\ stmtH # "live"
             /\ stmts = 0
    /\ res = "none" => stmts = 0

\* FreeResult released the handle of a Query whose SQLExecDirect had failed
C9_Witness ==
    /\ last.op = "FreeResult"
    /\ last.ret = 0
    /\ last.str = "live"
    /\ stmtH = "freed"

\* C10 as claimed: a slot that holds a buffer holds the string value of its
\* field in the row the cursor is on.
C10_BufferHoldsCurrentRow ==
    \A i \in Slots :
        (res = "pending" /\ IsBlock(retstr[i])) => (OnRow /\ retstr[i] = Cell(pos, i))

\* C10 amended: when GetString returns a buffer, the slot of that field holds
\* the string value of the field in the row the cursor is on, and that buffer
\* is what is returned.
C10_ReturnedBufferHoldsCurrentRow ==
    (last.op = "GetString" /\ last.str # "NULL") =>
        /\ OnRow
        /\ last.field \in Slots
        /\ retstr[last.field] = Cell(pos, last.field)
        /\ last.str = retstr[last.field]

\* GetString refilled a slot on the second row
C10_Witness ==
    /\ last.op = "GetString"
    /\ last.str # "NULL"
    /\ pos = 2
    /\ last.field = 1
    /\ retstr[0] = Cell(1, 0)
====
